---------------------------- MODULE Spec2Model ----------------------------
(***************************************************************************)
(* Model of the exploratory-analysis pipeline of                           *)
(* analise_exploratoria_UCI_Energy_Efficiency:                             *)
(*   src/src/main.py                  main, log_system                     *)
(*   src/src/convert_csv.py           converter_excel_para_csv             *)
(*   src/src/analise_exploratoria.py  the stages and the report assembler  *)
(*                                                                         *)
(* Three specifications share the module:                                  *)
(*   Spec           one run of main(): the stages in sequence, each one    *)
(*                  succeeding or failing as its environment decides       *)
(*   SpecRelatorio  gerar_relatorio_pdf on arbitrary inputs and directory  *)
(*   SpecCorr       extrair_maiores_correlacoes on arbitrary matrices      *)
(*                                                                         *)
(* Lengths are in hundredths of a point, so that the A4 height 841.89 is   *)
(* an integer.  File names are sequences of tokens (prefix, column name,   *)
(* extension), so that str.startswith is a prefix test on sequences.       *)
(***************************************************************************)
EXTENDS Integers, Sequences, FiniteSets, TLC

VARIABLES
    \* ---- one run of main() ----
    pc,          \* the stage main() is about to run, "except" or "fim"
    entrada,     \* the columns of the input file: <<[nome, numerica], ...>>
    df,          \* the table held by executar_analise_exploratoria
    figs,        \* the files of IMAGES_DIR
    vif,         \* the Variavel column of the table calcular_vif returned
    pdf,         \* the number of times the final document was saved
    log,         \* the calls of the logging module, in order
    executadas,  \* the stages entered so far, in order
    falhas,      \* the stages inside which something failed
    retornos,    \* the stages that returned normally
    excecao,     \* the exception in flight ("nenhuma" when none)
    levantou,    \* the stage that raised to its caller ("nenhum" when none)
    mainRet,     \* "em_curso", "normal" (main returned) or "propagou"
    \* ---- gerar_relatorio_pdf ----
    pcRel,       \* the section the assembler is about to emit
    c,           \* the canvas: [paginas, atual]
    linhas,      \* number of text lines of each text section
    dir,         \* os.listdir(images_dir) at assembly time
    salvo,       \* c.save() was executed
    \* ---- extrair_maiores_correlacoes ----
    pcCorr,      \* "chamar" or "retornou"
    correlacao,  \* the matrix: [ncols, val]
    limite,      \* the argument limite
    resultado,   \* the list returned
    \* ---- verificar_nulos ----
    pcNul,       \* "chamar", "retornou" or "inativo"
    tabNul,      \* the table: <<[nome, celulas], ...>>, one record per column
    nulos,       \* the Series returned by the last call, by column position
    nulosAntes,  \* the Series returned by the call before the last injection
    injecao      \* the last injection: [col, n], n cells of column col

varsPipe == <<pc, entrada, df, figs, vif, pdf, log, executadas, falhas, retornos,
              excecao, levantou, mainRet>>
varsRel  == <<pcRel, c, linhas, dir, salvo>>
varsCorr == <<pcCorr, correlacao, limite, resultado>>
varsNul  == <<pcNul, tabNul, nulos, nulosAntes, injecao>>
vars     == <<varsPipe, varsRel, varsCorr, varsNul>>

---------------------------------------------------------------------------
(* Bounds of the model *)

\* fewest and most columns of the input file (renaming needs ten)
MinCols == 9
MaxCols == 11
\* most non-numeric columns of the input file
MaxNaoNum == 1

---------------------------------------------------------------------------
(* Helpers *)

Min(a, b) == IF a < b THEN a ELSE b
Max(a, b) == IF a > b THEN a ELSE b

Range(s) == {s[i] : i \in DOMAIN s}

\* the elements of a sequence of distinct elements, as all its orderings
Ordenacoes(S) ==
    {o \in [1..Cardinality(S) -> S] : \A x \in S : \E i \in DOMAIN o : o[i] = x}

---------------------------------------------------------------------------
(* Names *)

\* the header of the input file, by position
NomesOriginais ==
    <<"X1", "X2", "X3", "X4", "X5", "X6", "X7", "X8", "Y1", "Y2",
      "Unnamed_10", "Unnamed_11", "Unnamed_12", "Unnamed_13">>

\* map_colunas of renomear_colunas_pt_br, by position
NomesPtBr ==
    <<"Compacidade_Relativa", "Area_Superficial", "Area_Parede",
      "Area_Telhado", "Altura_Total", "Orientacao", "Area_Vidro",
      "Distribuicao_Area_Vidro", "Carga_Aquecimento", "Carga_Resfriamento">>

Alvos == {"Carga_Aquecimento", "Carga_Resfriamento"}

\* os.path.join(images_dir, ...): the file names the stages write
ArqHeatmap       == <<"heatmap_correlacao", ".png">>
ArqVif           == <<"vif_tabela", ".csv">>
ArqHist(col)     == <<"hist_", col, ".png">>
ArqBox(col)      == <<"box_", col, ".png">>
ArqScatter(t, p) == <<"scatter_", t, "_", p, ".png">>

\* str.startswith on token sequences
StartsWith(f, p) == Len(p) <= Len(f) /\ SubSeq(f, 1, Len(p)) = p

---------------------------------------------------------------------------
(* The table *)

\* df.select_dtypes(include=[np.number]).columns.tolist()
ColunasNumericas(t) ==
    LET num == SelectSeq(t, LAMBDA col : col.numerica)
    IN  [i \in DOMAIN num |-> num[i].nome]

\* the list comprehension dropping the two targets
NaoAlvo_SoAquecimento(nome) == nome # "Carga_Aquecimento"
NaoAlvo(nome) == nome \notin Alvos
Preditoras(t) == SelectSeq(ColunasNumericas(t), NaoAlvo)

\* map_colunas looked up by label: the keys are the labels of the first ten
\* columns, and a dict keeps the last value given to a key
NovoNome(t, nome) ==
    LET chaves == {i \in DOMAIN NomesPtBr : t[i].nome = nome}
    IN  IF chaves = {} THEN nome
        ELSE NomesPtBr[CHOOSE k \in chaves : \A j \in chaves : j <= k]

\* df.rename(columns=map_colunas): a new table, every column whose label is
\* a key of the map renamed, the cells untouched
Renomear_SoDez(t) ==
    [i \in DOMAIN NomesPtBr |-> [t[i] EXCEPT !.nome = NomesPtBr[i]]]
Renomear(t) ==
    [i \in DOMAIN t |-> [t[i] EXCEPT !.nome = NovoNome(t, @)]]


---------------------------------------------------------------------------
(* Log records: logging.<nivel>(msg) called inside function <origem> *)

\* emitido is FALSE for a call whose record the logging module cannot format
\* (more arguments than placeholders): the handlers drop it and report the
\* formatting error on stderr
Registro(nivel, origem, msg) ==
    [nivel |-> nivel, origem |-> origem, msg |-> msg, emitido |-> TRUE]
RegistroMalFormado(nivel, origem, msg) ==
    [nivel |-> nivel, origem |-> origem, msg |-> msg, emitido |-> FALSE]

---------------------------------------------------------------------------
(* extrair_maiores_correlacoes *)

\* most columns of a correlation matrix, largest limit, and the resolution
\* of the coefficients: the values are -MaxV..MaxV, MaxV standing for 1.0
MaxN == 3
MaxK == 4
MaxV == 2

\* correlacao.copy().abs(), one cell
Abs(x) == IF x < 0 THEN -x ELSE x

\* range(i + 1, len(colunas)): the first j scanned on row i
InicioJ_Diagonal(i) == i
InicioJ(i) == i + 1

\* the two nested loops: ((colunas[i], colunas[j]), corr.iloc[i, j]) appended
\* row by row
RECURSIVE ParesDe(_, _, _)
ParesDe(m, i, j) ==
    IF i > m.ncols THEN <<>>
    ELSE IF j > m.ncols THEN ParesDe(m, i + 1, InicioJ(i + 1))
    ELSE <<[par |-> <<NomesPtBr[i], NomesPtBr[j]>>, val |-> Abs(m.val[i][j])]>>
         \o ParesDe(m, i, j + 1)

Pares(m) == ParesDe(m, 1, InicioJ(1))

\* one step of a stable descending sort: x goes after every element whose
\* key is greater than or equal to its own
RECURSIVE InserirDesc(_, _)
InserirDesc(s, x) ==
    IF s = <<>> THEN <<x>>
    ELSE IF Head(s).val >= x.val THEN <<Head(s)>> \o InserirDesc(Tail(s), x)
    ELSE <<x>> \o s

\* the same step for an ascending stable sort
RECURSIVE InserirAsc(_, _)
InserirAsc(s, x) ==
    IF s = <<>> THEN <<x>>
    ELSE IF Head(s).val <= x.val THEN <<Head(s)>> \o InserirAsc(Tail(s), x)
    ELSE <<x>> \o s

RECURSIVE OrdenarAsc(_)
OrdenarAsc(s) ==
    IF s = <<>> THEN <<>>
    ELSE InserirAsc(OrdenarAsc(SubSeq(s, 1, Len(s) - 1)), s[Len(s)])

RECURSIVE Inverter(_)
Inverter(s) == IF s = <<>> THEN <<>> ELSE Append(Inverter(Tail(s)), Head(s))

RECURSIVE OrdenarDescEstavel(_)
OrdenarDescEstavel(s) ==
    IF s = <<>> THEN <<>>
    ELSE InserirDesc(OrdenarDescEstavel(SubSeq(s, 1, Len(s) - 1)), s[Len(s)])

\* sorted(pares, key=lambda x: x[1], reverse=True)
Sorted_SemReverse(s) == OrdenarAsc(s)
Sorted_AscInvertido(s) == Inverter(OrdenarAsc(s))
Sorted(s) == OrdenarDescEstavel(s)

\* pares_ordenados[:limite]
Fatia(s, k) ==
    IF k >= 0 THEN SubSeq(s, 1, Min(k, Len(s)))
    ELSE SubSeq(s, 1, Max(Len(s) + k, 0))

ExtrairMaioresCorrelacoes(m, k) == Fatia(Sorted(Pares(m)), k)

\* the matrices of the model: symmetric, diagonal 1.0
ParesIndices(n) == {p \in (1..n) \X (1..n) : p[1] < p[2]}
Matriz(n, tri) ==
    [ncols |-> n,
     val |-> [i \in 1..n |-> [j \in 1..n |->
                IF i = j THEN MaxV
                ELSE tri[<<Min(i, j), Max(i, j)>>]]]]

\* the call: logging.info, the computation, return resultado
Extrair ==
    /\ pcCorr = "chamar"
    /\ log' = Append(log, Registro("INFO", "extrair_maiores_correlacoes",
                                   "Extraindo as maiores correlacoes"))
    /\ resultado' = ExtrairMaioresCorrelacoes(correlacao, limite)
    /\ pcCorr' = "retornou"
    /\ UNCHANGED <<correlacao, limite, varsRel, varsNul>>
    /\ UNCHANGED <<pc, entrada, df, figs, vif, pdf, executadas, falhas, retornos,
                   excecao, levantou, mainRet>>

---------------------------------------------------------------------------
(* verificar_nulos *)

\* most rows of a table given to verificar_nulos, and most injections of
\* missing values between its calls
MaxLinhasNul == 2
MaxInjecoes  == 1

\* what a cell can hold: a value, the empty string, NaN, None
Celulas == {"v", "", "NaN", "None"}
Ausentes == {"NaN", "None"}

\* df.isnull(), one cell: NaN and None are null, the empty string is not
IsNull_SoNaN(x) == x = "NaN"
IsNull(x) == x \in Ausentes

\* .sum() of a boolean column: True counts 1, False 0
RECURSIVE Sum(_)
Sum(s) ==
    IF s = <<>> THEN 0
    ELSE (IF Head(s) THEN 1 ELSE 0) + Sum(Tail(s))

\* df.isnull().sum(): one count per column, in column order
ContarNulos(t) ==
    [i \in DOMAIN t |->
        Sum([r \in DOMAIN t[i].celulas |-> IsNull(t[i].celulas[r])])]

\* the tables of the model: two named columns of the same number of rows
ColunasNul == <<"Area_Parede", "Orientacao">>
TabelaNul(cels) ==
    [i \in DOMAIN ColunasNul |-> [nome |-> ColunasNul[i], celulas |-> cels[i]]]

SemInjecao == [col |-> 0, n |-> 0, feitas |-> 0]

\* the call: logging.info, the count, logging.info, return nulos
ChamarVerificarNulos ==
    /\ pcNul = "chamar"
    /\ log' = log \o <<Registro("INFO", "verificar_nulos", "Verificando valores nulos"),
                       Registro("INFO", "verificar_nulos", "Verificacao concluida")>>
    /\ nulos' = ContarNulos(tabNul)
    /\ pcNul' = "retornou"
    /\ UNCHANGED <<tabNul, nulosAntes, injecao, varsRel, varsCorr>>
    /\ UNCHANGED <<pc, entrada, df, figs, vif, pdf, executadas, falhas, retornos,
                   excecao, levantou, mainRet>>

\* between two calls the caller replaces some present cells of one column
\* by missing values; the function is then called on the new table
Injetar ==
    /\ pcNul = "retornou"
    /\ injecao.feitas < MaxInjecoes
    /\ \E col \in DOMAIN tabNul, valor \in Ausentes :
          \E pos \in SUBSET {r \in DOMAIN tabNul[col].celulas :
                                tabNul[col].celulas[r] \notin Ausentes} :
             /\ pos # {}
             /\ tabNul' = [tabNul EXCEPT ![col].celulas =
                              [r \in DOMAIN @ |-> IF r \in pos THEN valor ELSE @[r]]]
             /\ injecao' = [col |-> col, n |-> Cardinality(pos),
                            feitas |-> injecao.feitas + 1]
    /\ nulosAntes' = nulos
    /\ pcNul' = "chamar"
    /\ UNCHANGED <<nulos, varsPipe, varsRel, varsCorr>>

---------------------------------------------------------------------------
(* One run of main(): the stages *)

\* the calls of main() and executar_analise_exploratoria, in program order
Estagios ==
    <<"converter_excel_para_csv", "ler_arquivo_csv", "renomear_colunas_pt_br",
      "info", "estatisticas_descritivas", "verificar_nulos",
      "gerar_histogramas", "gerar_matriz_correlacao",
      "scatterplots_aqueciemneto", "scatterplots_refriamento",
      "extrair_maiores_correlacoes", "calcular_vif", "gerar_relatorio_pdf">>

Posicao(s) == CHOOSE i \in DOMAIN Estagios : Estagios[i] = s

\* the statement after the call of stage s
Proximo(s) ==
    IF Posicao(s) < Len(Estagios) THEN Estagios[Posicao(s) + 1] ELSE "concluir"

\* the input files of the model: MinCols..MaxCols columns, of which at most
\* MaxNaoNum are text, or all the predictor columns are; two rows, the cells
\* of each column different from those of the others
Tabela(n, texto) ==
    [i \in 1..n |-> [nome |-> NomesOriginais[i], numerica |-> i \notin texto,
                     celulas |-> <<i, i + n>>]]
Entradas ==
    UNION {{Tabela(n, texto) :
              texto \in {t \in SUBSET (1..n) : Cardinality(t) <= MaxNaoNum}
                        \cup {1..Min(n, 8)}} :
           n \in MinCols..MaxCols}

\* stage s is entered
Entra(s) ==
    /\ pc = s
    /\ executadas' = Append(executadas, s)
    /\ UNCHANGED <<entrada, pdf, mainRet, varsRel, varsCorr, varsNul>>

\* stage s returns to executar_analise_exploratoria, which goes on
Retorna(s) ==
    /\ pc' = Proximo(s)
    /\ retornos' = retornos \cup {s}
    /\ UNCHANGED <<falhas, excecao, levantou>>

\* a failure inside stage s leaves it as an exception of type tipo, which
\* executar_analise_exploratoria does not catch: control is in main's except
Levanta_Continua(s, tipo) ==
    /\ pc' = Proximo(s)
    /\ falhas' = falhas \cup {s}
    /\ excecao' = tipo
    /\ levantou' = s
    /\ UNCHANGED retornos
Levanta(s, tipo) ==
    /\ pc' = "except"
    /\ falhas' = falhas \cup {s}
    /\ excecao' = tipo
    /\ levantou' = s
    /\ UNCHANGED retornos

Info(origem, msg) == Registro("INFO", origem, msg)
Erro(origem, msg) == Registro("ERROR", origem, msg)

\* main() up to the first call: makedirs, log_system, the try is entered
MainInicio ==
    /\ pc = "main"
    /\ log' = log \o <<Info("log_system", "INICIO DA EXECUCAO"),
                       Info("main", "Convertendo Excel para CSV")>>
    /\ pc' = Estagios[1]
    /\ UNCHANGED <<entrada, df, figs, vif, pdf, executadas, falhas, retornos,
                   excecao, levantou, mainRet, varsRel, varsCorr, varsNul>>

\* converter_excel_para_csv
Converter ==
    LET s == "converter_excel_para_csv" IN
    /\ Entra(s)
    /\ UNCHANGED <<df, figs, vif>>
    /\ \/ /\ log' = log \o <<Info(s, "Lendo arquivo Excel"),
                             Info(s, "Salvando CSV"),
                             Info(s, "Conversao para CSV concluida")>>
          /\ Retorna(s)
       \/ /\ log' = log \o <<Info(s, "Lendo arquivo Excel"),
                             Erro(s, "Arquivo XLSX nao encontrado")>>
          /\ Levanta(s, "FileNotFoundError")
       \/ /\ log' = log \o <<Info(s, "Lendo arquivo Excel"),
                             Erro(s, "Erro ao converter Excel para CSV")>>
          /\ Levanta(s, "Exception")

\* ler_arquivo_csv, after the first logging.info of
\* executar_analise_exploratoria.  The call logging.error("Erro ao ler o
\* CSV: ", e) passes an argument the message has no placeholder for.
LerArquivoCsv ==
    LET s == "ler_arquivo_csv"
        antes == <<Info("executar_analise_exploratoria", "Executando pipeline"),
                   Info(s, "Lendo dados")>>
    IN
    /\ Entra(s)
    /\ UNCHANGED <<figs, vif>>
    /\ \/ /\ df' = entrada
          /\ log' = log \o antes \o <<Info(s, "Dados carregados")>>
          /\ Retorna(s)
       \/ /\ df' = df
          /\ log' = log \o antes \o <<Erro(s, "Arquivo nao encontrado")>>
          /\ Levanta(s, "FileNotFoundError")
       \/ /\ df' = df
          /\ log' = log \o antes \o <<RegistroMalFormado("ERROR", s, "Erro ao ler o CSV: ")>>
          /\ Levanta(s, "Exception")

\* renomear_colunas_pt_br: df.columns[9] needs ten columns; nothing is caught
RenomearColunas ==
    LET s == "renomear_colunas_pt_br" IN
    /\ Entra(s)
    /\ UNCHANGED <<figs, vif>>
    /\ IF Len(df) >= Len(NomesPtBr)
       THEN /\ df' = Renomear(df)
            /\ log' = log \o <<Info(s, "Renomeando colunas"),
                               Info(s, "Colunas renomeadas com sucesso")>>
            /\ Retorna(s)
       ELSE /\ df' = df
            /\ log' = log \o <<Info(s, "Renomeando colunas")>>
            /\ Levanta(s, "IndexError")

\* a stage that is one library call in a try whose handler logs and
\* re-raises: it returns, or it logs the error and raises
Desfecho(s, inicio, fim, erro) ==
    /\ UNCHANGED <<df, figs, vif>>
    /\ \/ /\ log' = log \o inicio \o fim
          /\ Retorna(s)
       \/ /\ log' = log \o inicio \o <<Erro(s, erro)>>
          /\ Levanta(s, "Exception")

\* info
InfoDf ==
    /\ Entra("info")
    /\ Desfecho("info", <<Info("info", "Gerando informacoes do DataFrame")>>,
                <<>>, "Erro ao executar df.info()")

\* estatisticas_descritivas
EstatisticasDescritivas ==
    /\ Entra("estatisticas_descritivas")
    /\ Desfecho("estatisticas_descritivas",
                <<Info("estatisticas_descritivas", "Calculando as estatisticas")>>,
                <<Info("estatisticas_descritivas", "Estatisticas calculadas")>>,
                "Erro ao gerar estatisticas descritivas")

\* verificar_nulos
VerificarNulos ==
    /\ Entra("verificar_nulos")
    /\ Desfecho("verificar_nulos",
                <<Info("verificar_nulos", "Verificando valores nulos")>>,
                <<Info("verificar_nulos", "Verificacao concluida")>>,
                "Erro ao verificar valores nulos")

\* n copies of a record
Repetir(r, n) == [i \in 1..n |-> r]

\* the files written by the first k iterations of the loop of
\* gerar_histogramas over colunas_numericas
FigsHistBox(cols, k) ==
    {ArqHist(cols[i]) : i \in 1..k} \cup {ArqBox(cols[i]) : i \in 1..k}

\* gerar_histogramas: the loop stops at the first column whose histogram
\* or boxplot fails; what the earlier iterations saved stays
GerarHistogramas ==
    LET s == "gerar_histogramas"
        cols == ColunasNumericas(df)
        antes == <<Info(s, "Gerando histogramas e boxplots")>>
        feito == Info(s, "Histogramas e boxplots gerados com sucesso")
    IN
    /\ Entra(s)
    /\ UNCHANGED <<df, vif>>
    /\ \/ /\ figs' = figs \cup FigsHistBox(cols, Len(cols))
          /\ log' = log \o antes \o Repetir(feito, Len(cols))
          /\ Retorna(s)
       \/ /\ figs' = figs
          /\ log' = log \o antes \o <<Erro(s, "Erro ao identificar colunas numericas")>>
          /\ Levanta(s, "Exception")
       \/ \E k \in 1..Len(cols), histSalvo \in BOOLEAN :
             /\ figs' = figs \cup FigsHistBox(cols, k - 1)
                             \cup (IF histSalvo THEN {ArqHist(cols[k])} ELSE {})
             /\ log' = log \o antes \o Repetir(feito, k - 1)
                           \o <<Erro(s, "Erro ao gerar graficos para a coluna")>>
             /\ Levanta(s, "Exception")

\* gerar_matriz_correlacao.  The handler of the heatmap block logs and does
\* not re-raise; its message reads the local caminho, which is unbound when
\* the failure comes before caminho is assigned (plt.figure, sns.heatmap,
\* plt.title): the handler itself then raises UnboundLocalError, unlogged.
GerarMatrizCorrelacao ==
    LET s == "gerar_matriz_correlacao"
        antes == <<Info(s, "Calculando matriz de correlacao")>>
    IN
    /\ Entra(s)
    /\ UNCHANGED <<df, vif>>
    /\ \/ /\ figs' = figs \cup {ArqHeatmap}
          /\ log' = log \o antes
          /\ Retorna(s)
       \/ /\ figs' = figs
          /\ log' = log \o antes \o <<Erro(s, "Erro ao calcular matriz de correlacao")>>
          /\ Levanta(s, "Exception")
       \/ /\ figs' = figs
          /\ log' = log \o antes \o <<Erro(s, "Heatmap de correlacao salvo em")>>
          /\ pc' = Proximo(s)
          /\ falhas' = falhas \cup {s}
          /\ retornos' = retornos \cup {s}
          /\ UNCHANGED <<excecao, levantou>>
       \/ /\ figs' = figs
          /\ log' = log \o antes
          /\ Levanta(s, "UnboundLocalError")

\* the loop of a scatterplot stage for target alvo: one image per predictor,
\* stopping at the first failure
DesfechoScatter(s, alvo, feito) ==
    LET cols == Preditoras(df)
        antes == <<Info(s, "Gerando scatterplots")>>
    IN
    /\ UNCHANGED <<df, vif>>
    /\ \/ /\ figs' = figs \cup {ArqScatter(alvo, cols[i]) : i \in 1..Len(cols)}
          /\ log' = log \o antes \o <<Info(s, feito)>>
          /\ Retorna(s)
       \/ /\ figs' = figs
          /\ log' = log \o antes \o <<Erro(s, "Erro ao identificar variaveis numericas")>>
          /\ Levanta(s, "Exception")
       \/ \E k \in 1..Len(cols) :
             /\ figs' = figs \cup {ArqScatter(alvo, cols[i]) : i \in 1..(k - 1)}
             /\ log' = log \o antes \o <<Erro(s, "Erro ao gerar scatterplot")>>
             /\ Levanta(s, "Exception")

\* scatterplots_aqueciemneto
ScatterplotsAquecimento ==
    /\ Entra("scatterplots_aqueciemneto")
    /\ DesfechoScatter("scatterplots_aqueciemneto", "Carga_Aquecimento",
                       "Scatterplots de aquecimento gerados com sucesso")

\* scatterplots_refriamento
ScatterplotsResfriamento ==
    /\ Entra("scatterplots_refriamento")
    /\ DesfechoScatter("scatterplots_refriamento", "Carga_Resfriamento",
                       "Scatterplots de resfriamento gerados com sucesso")

\* extrair_maiores_correlacoes(correl, limite=6) as a stage of the run
EstagioExtrair ==
    /\ Entra("extrair_maiores_correlacoes")
    /\ Desfecho("extrair_maiores_correlacoes",
                <<Info("extrair_maiores_correlacoes", "Extraindo as maiores correlacoes")>>,
                <<>>, "Erro ao extrair maiores correlacoes")

\* calcular_vif: the ValueError of the empty predictor list is raised inside
\* the try, so the handler logs a second error and re-raises it
CalcularVif ==
    LET s == "calcular_vif"
        antes == <<Info(s, "Calculando VIF")>>
    IN
    /\ Entra(s)
    /\ df' = df
    /\ IF Len(Preditoras(df)) = 0
       THEN /\ figs' = figs
            /\ vif' = vif
            /\ log' = log \o antes
                          \o <<Erro(s, "Nenhuma variavel preditora encontrada"),
                               Erro(s, "Erro ao calcular VIF")>>
            /\ Levanta(s, "ValueError")
       ELSE \/ /\ figs' = figs \cup {ArqVif}
               /\ vif' = Preditoras(df)
               /\ log' = log \o antes \o <<Info(s, "Tabela VIF salva")>>
               /\ Retorna(s)
            \/ /\ figs' = figs
               /\ vif' = vif
               /\ log' = log \o antes \o <<Erro(s, "Erro ao calcular VIF")>>
               /\ Levanta(s, "Exception")
            \/ /\ figs' = figs
               /\ vif' = vif
               /\ log' = log \o antes \o <<Erro(s, "Erro ao salvar arquivo CSV de VIF")>>
               /\ Levanta(s, "Exception")

---------------------------------------------------------------------------
(* gerar_relatorio_pdf: the canvas *)

\* A4 height, 841.89 points; the bottom margin and the offsets from the top
\* of the page used by the assembler, in hundredths of a point
Altura          == 84189
MargemInferior  == 6000
DeslocTitulo    == 6000
DeslocTexto     == 9000
DeslocCapa1     == 8000
DeslocCapa2     == 10000
DeslocSumario2  == 10800
DeslocSumario3  == 12600
PassoInfo       == 1000
PassoDescribe   == 1000
PassoNulos      == 1400
PassoCorr       == 1400
PassoVif        == 1200

\* what the canvas is asked to draw: setFont, a heading, a line of a text
\* block, an image; sec is the section of the assembler that asks
Fonte(sec)     == [tipo |-> "fonte",  sec |-> sec, y |-> 0, arq |-> <<>>]
Titulo(sec, y) == [tipo |-> "titulo", sec |-> sec, y |-> y, arq |-> <<>>]
Linha(sec, y)  == [tipo |-> "linha",  sec |-> sec, y |-> y, arq |-> <<>>]
Imagem(sec, f) == [tipo |-> "imagem", sec |-> sec, y |-> 0, arq |-> f]

\* canvas.Canvas(pdf_path): no page yet, nothing drawn, no exception
CanvasNovo == [paginas |-> <<>>, atual |-> <<>>, erro |-> FALSE]

\* a drawing call appends to the current page (nothing once an exception
\* is in flight)
Desenha(cv, op) == IF cv.erro THEN cv ELSE [cv EXCEPT !.atual = Append(@, op)]

RECURSIVE DesenhaTodos(_, _)
DesenhaTodos(cv, ops) ==
    IF ops = <<>> THEN cv ELSE DesenhaTodos(Desenha(cv, Head(ops)), Tail(ops))

\* c.showPage(): the current page is closed and a new one begun
ShowPage(cv) ==
    IF cv.erro THEN cv
    ELSE [cv EXCEPT !.paginas = Append(@, cv.atual), !.atual = <<>>]

\* c.save(): a page with anything on it is closed first
Save(cv) == IF cv.atual # <<>> THEN ShowPage(cv) ELSE cv

\* the test "if y < 60" of the text loops
QuebraPagina_Zero(y) == y < 0
QuebraPagina(y) == y < MargemInferior

\* one iteration of a text loop, on the canvas and the cursor y: draw the
\* line at y, step down, and when the cursor is below the margin start a new
\* page, set the font again and go back to the top
Iteracao(st, passo, sec) ==
    IF st.cv.erro THEN st
    ELSE LET d  == Desenha(st.cv, Linha(sec, st.y))
             y2 == st.y - passo
         IN  IF QuebraPagina(y2)
             THEN [cv |-> Desenha(ShowPage(d), Fonte(sec)), y |-> Altura - DeslocTitulo]
             ELSE [cv |-> d, y |-> y2]

\* n iterations in sequence: the first half of them, then the rest
RECURSIVE Iteracoes(_, _, _, _)
Iteracoes(st, n, passo, sec) ==
    IF n = 0 THEN st
    ELSE IF n = 1 THEN Iteracao(st, passo, sec)
    ELSE LET meio == Iteracoes(st, n \div 2, passo, sec)
         IN  IF meio.cv.erro THEN meio
             ELSE Iteracoes(meio, n - (n \div 2), passo, sec)

\* "for linha in linhas": the canvas after the n lines, starting at y
LoopTexto(cv, y, n, passo, sec) == Iteracoes([cv |-> cv, y |-> y], n, passo, sec).cv

\* heading, font and loop of a text section
BlocoTexto(cv, sec, n, passo) ==
    LoopTexto(DesenhaTodos(cv, <<Fonte(sec), Titulo(sec, Altura - DeslocTitulo),
                                 Fonte(sec)>>),
              Altura - DeslocTexto, n, passo, sec)

---------------------------------------------------------------------------
(* gerar_relatorio_pdf: the sections *)

\* CAPA: title, timestamp, showPage
SecCapa(cv) ==
    ShowPage(DesenhaTodos(cv, <<Fonte("capa"), Titulo("capa", Altura - DeslocCapa1),
                                Fonte("capa"), Titulo("capa", Altura - DeslocCapa2)>>))

\* INFO: the lines of info_texto, then showPage
SecInfo(cv, n) == ShowPage(BlocoTexto(cv, "info", n, PassoInfo))

\* SUMARIO EXECUTIVO: heading and three lines, then showPage
SecSumario(cv) ==
    ShowPage(DesenhaTodos(cv,
        <<Fonte("sumario"), Titulo("sumario", Altura - DeslocTitulo),
          Fonte("sumario"), Linha("sumario", Altura - DeslocTexto),
          Linha("sumario", Altura - DeslocSumario2),
          Linha("sumario", Altura - DeslocSumario3)>>))

\* DESCRIBE: the lines of descricao.T.to_string(), then showPage
SecDescribe(cv, n) == ShowPage(BlocoTexto(cv, "describe", n, PassoDescribe))

\* VALORES NULOS: one line per column, then showPage
SecNulos_SemShowPage(cv, n) == BlocoTexto(cv, "nulos", n, PassoNulos)
SecNulos(cv, n) == ShowPage(BlocoTexto(cv, "nulos", n, PassoNulos))

\* MAIORES CORRELACOES: one line per pair; the page is left open
SecCorrelacoes(cv, n) == BlocoTexto(cv, "correlacoes", n, PassoCorr)

\* ImageReader(caminho): reading a file that is not there raises
LerImagem(cv, f, d) == IF f \in d THEN cv ELSE [cv EXCEPT !.erro = TRUE]

\* an image page: showPage, heading, the image read and drawn
PaginaImagem(cv, sec, f, d) ==
    LET lida == LerImagem(DesenhaTodos(ShowPage(cv),
                              <<Fonte(sec), Titulo(sec, Altura - DeslocTitulo)>>), f, d)
    IN  Desenha(lida, Imagem(sec, f))

\* HEATMAP: only if os.path.exists(caminho_heat)
SecHeatmap_SemExists(cv, d) == PaginaImagem(cv, "heatmap", ArqHeatmap, d)
SecHeatmap(cv, d) ==
    IF ArqHeatmap \in d THEN PaginaImagem(cv, "heatmap", ArqHeatmap, d) ELSE cv

\* the names of os.listdir(images_dir) that start with a prefix
Listagem(d, prefixo) == {f \in d : StartsWith(f, prefixo)}

PrefixoHist       == <<"hist_">>
PrefixoBox        == <<"box_">>
PrefixoScatterAq_Curto == <<"scatter_">>
PrefixoScatterAq  == <<"scatter_", "Carga_Aquecimento">>
PrefixoScatterRes == <<"scatter_", "Carga_Resfriamento">>

\* the loop over the listed names, in the order the collection yields them
RECURSIVE SecImagens(_, _, _, _)
SecImagens(cv, sec, ordem, d) ==
    IF ordem = <<>> THEN cv
    ELSE SecImagens(IF Head(ordem) \in d
                    THEN PaginaImagem(cv, sec, Head(ordem), d)
                    ELSE cv,
                    sec, Tail(ordem), d)

\* VIF: only if os.path.exists(caminho_vif); the lines of the table read back
SecVif(cv, d, n) ==
    IF ArqVif \in d THEN BlocoTexto(ShowPage(cv), "vif", n, PassoVif) ELSE cv

\* the sections in program order
Secoes ==
    <<"capa", "info", "sumario", "describe", "nulos", "correlacoes", "heatmap",
      "hist", "box", "scatter_aq", "scatter_res", "vif">>

SecoesTexto == {"info", "describe", "nulos", "correlacoes", "vif"}

Ordem(sec) == CHOOSE i \in DOMAIN Secoes : Secoes[i] = sec

ProximaSecao(sec) ==
    IF Ordem(sec) < Len(Secoes) THEN Secoes[Ordem(sec) + 1] ELSE "save"

\* section sec applied to the canvas, for directory d, line counts ln and
\* iteration orders ords of the four listings
Secao(sec, cv, d, ln, ords) ==
    CASE sec = "capa"        -> SecCapa(cv)
      [] sec = "info"        -> SecInfo(cv, ln["info"])
      [] sec = "sumario"     -> SecSumario(cv)
      [] sec = "describe"    -> SecDescribe(cv, ln["describe"])
      [] sec = "nulos"       -> SecNulos(cv, ln["nulos"])
      [] sec = "correlacoes" -> SecCorrelacoes(cv, ln["correlacoes"])
      [] sec = "heatmap"     -> SecHeatmap(cv, d)
      [] sec = "vif"         -> SecVif(cv, d, ln["vif"])
      [] OTHER               -> SecImagens(cv, sec, ords[sec], d)

\* the sections from the i-th on, in program order, then c.save(); an
\* exception ends the function at once
RECURSIVE RelatorioDesde(_, _, _, _, _)
RelatorioDesde(i, cv, d, ln, ords) ==
    IF cv.erro THEN cv
    ELSE IF i > Len(Secoes) THEN Save(cv)
    ELSE RelatorioDesde(i + 1, Secao(Secoes[i], cv, d, ln, ords), d, ln, ords)

\* the whole assembler as a function of its inputs
Relatorio(d, ln, ords) == RelatorioDesde(1, CanvasNovo, d, ln, ords)

---------------------------------------------------------------------------
(* gerar_relatorio_pdf: one action per section *)

Avanca(sec) ==
    /\ pcRel = sec
    /\ pcRel' = ProximaSecao(sec)
    /\ UNCHANGED <<linhas, dir, salvo, varsPipe, varsCorr, varsNul>>

\* the sections that iterate no listing
SemListagem == <<>>

RelCapa        == Avanca("capa")        /\ c' = Secao("capa", c, dir, linhas, SemListagem)
RelInfo        == Avanca("info")        /\ c' = Secao("info", c, dir, linhas, SemListagem)
RelSumario     == Avanca("sumario")     /\ c' = Secao("sumario", c, dir, linhas, SemListagem)
RelDescribe    == Avanca("describe")    /\ c' = Secao("describe", c, dir, linhas, SemListagem)
RelNulos       == Avanca("nulos")       /\ c' = Secao("nulos", c, dir, linhas, SemListagem)
RelCorrelacoes == Avanca("correlacoes") /\ c' = Secao("correlacoes", c, dir, linhas, SemListagem)
RelHeatmap     == Avanca("heatmap")     /\ c' = Secao("heatmap", c, dir, linhas, SemListagem)
RelVif         == Avanca("vif")         /\ c' = Secao("vif", c, dir, linhas, SemListagem)

\* an image section: the listing filtered by prefix, iterated in any order
Iterada(sec, prefixo) ==
    \E ordem \in Ordenacoes(Listagem(dir, prefixo)) :
        c' = Secao(sec, c, dir, linhas, [s \in {sec} |-> ordem])

RelHistogramas == Avanca("hist")        /\ Iterada("hist", PrefixoHist)
RelBoxplots    == Avanca("box")         /\ Iterada("box", PrefixoBox)
RelScatterAq   == Avanca("scatter_aq")  /\ Iterada("scatter_aq", PrefixoScatterAq)
RelScatterRes  == Avanca("scatter_res") /\ Iterada("scatter_res", PrefixoScatterRes)

\* c.save(): the document is written
RelSalvar ==
    /\ pcRel = "save"
    /\ c' = Save(c)
    /\ salvo' = ~c.erro
    /\ pcRel' = "fim"
    /\ UNCHANGED <<linhas, dir, varsPipe, varsCorr, varsNul>>

---------------------------------------------------------------------------
(* One run of main(): the last stage, the end, the handler *)

\* gerar_relatorio_pdf as a stage: nothing in it is caught or logged, and
\* the document exists only once c.save() has run
GerarRelatorio ==
    LET s == "gerar_relatorio_pdf" IN
    /\ pc = s
    /\ executadas' = Append(executadas, s)
    /\ UNCHANGED <<entrada, df, figs, vif, mainRet, varsRel, varsCorr, varsNul>>
    /\ \/ /\ pdf' = pdf + 1
          /\ log' = log \o <<Info(s, "Gerando relatorio PDF"),
                             Info(s, "Relatorio PDF salvo")>>
          /\ Retorna(s)
       \/ /\ pdf' = pdf
          /\ log' = log \o <<Info(s, "Gerando relatorio PDF")>>
          /\ Levanta(s, "Exception")

\* the last statement of executar_analise_exploratoria; main returns
Concluir ==
    /\ pc = "concluir"
    /\ log' = Append(log, Info("executar_analise_exploratoria",
                               "Pipeline concluido com sucesso"))
    /\ mainRet' = "normal"
    /\ pc' = "fim"
    /\ UNCHANGED <<entrada, df, figs, vif, pdf, executadas, falhas, retornos,
                   excecao, levantou, varsRel, varsCorr, varsNul>>

\* main's "except Exception as e": one logging.error, and main returns
MainExcept_Propaga ==
    /\ pc = "except"
    /\ mainRet' = "propagou"
    /\ pc' = "fim"
    /\ UNCHANGED <<entrada, df, figs, vif, pdf, log, executadas, falhas, retornos,
                   excecao, levantou, varsRel, varsCorr, varsNul>>
MainExcept ==
    /\ pc = "except"
    /\ log' = Append(log, Erro("main", "ERRO CRITICO DURANTE A EXECUCAO"))
    /\ excecao' = "nenhuma"
    /\ mainRet' = "normal"
    /\ pc' = "fim"
    /\ UNCHANGED <<entrada, df, figs, vif, pdf, executadas, falhas, retornos,
                   levantou, varsRel, varsCorr, varsNul>>

---------------------------------------------------------------------------
(* Specifications *)

\* the report inputs of the model
MaxQuebras  == 1
Janela      == 1
MaxCurto    == 1
MaxAusentes == 1

\* lines a text loop draws on its first page and on each following page
\* before it breaks the page
CabemPrimeira(passo)  == ((Altura - DeslocTexto - MargemInferior) \div passo) + 1
CabemSeguinte(passo)  == ((Altura - DeslocTitulo - MargemInferior) \div passo) + 1
LinhasAte(passo, q)   ==
    IF q = 0 THEN 0 ELSE CabemPrimeira(passo) + (q - 1) * CabemSeguinte(passo)

PassoDe(sec) ==
    CASE sec = "info" -> PassoInfo
      [] sec = "describe" -> PassoDescribe
      [] sec = "nulos" -> PassoNulos
      [] sec = "correlacoes" -> PassoCorr
      [] sec = "vif" -> PassoVif

\* str.split yields at least one line; the two lists may be empty
MinLinhas(sec) == IF sec \in {"nulos", "correlacoes"} THEN 0 ELSE 1

\* the images directory of the model: the files the stages write for a
\* table with one numeric predictor and one numeric target, at most
\* MaxAusentes of them missing, or the empty directory
ColunasRel == <<"Area_Parede", "Carga_Aquecimento">>
ArquivosRel ==
    {ArqHeatmap, ArqVif}
    \cup {ArqHist(ColunasRel[i]) : i \in DOMAIN ColunasRel}
    \cup {ArqBox(ColunasRel[i]) : i \in DOMAIN ColunasRel}
    \cup {ArqScatter(t, ColunasRel[1]) : t \in Alvos}
\* files the run did not write: a histogram left by an earlier run on
\* another column, and a file whose name no filter matches
Alheios == {ArqHist("Orientacao"), <<"notas", ".txt">>}
Diretorios ==
    {ArquivosRel \ a : a \in {x \in SUBSET ArquivosRel : Cardinality(x) <= MaxAusentes}}
    \cup {{}}
    \cup {ArquivosRel \cup {a} : a \in Alheios}

PipeInativo ==
    /\ pc = "inativo" /\ entrada = <<>> /\ df = <<>> /\ figs = {} /\ pdf = 0
    /\ vif = <<>>
    /\ log = <<>> /\ executadas = <<>> /\ falhas = {} /\ retornos = {}
    /\ excecao = "nenhuma" /\ levantou = "nenhum" /\ mainRet = "em_curso"

RelInativo ==
    /\ pcRel = "inativo" /\ c = CanvasNovo /\ dir = {} /\ salvo = FALSE
    /\ linhas = [s \in SecoesTexto |-> MinLinhas(s)]

CorrInativo ==
    /\ pcCorr = "inativo" /\ correlacao = Matriz(0, <<>>) /\ limite = 0
    /\ resultado = <<>>

NulInativo ==
    /\ pcNul = "inativo" /\ tabNul = <<>> /\ nulos = <<>> /\ nulosAntes = <<>>
    /\ injecao = SemInjecao

\* ---- one run of main() ----
Init ==
    /\ pc = "main"
    /\ entrada \in Entradas
    /\ df = <<>> /\ figs = {} /\ vif = <<>> /\ pdf = 0 /\ log = <<>>
    /\ executadas = <<>> /\ falhas = {} /\ retornos = {}
    /\ excecao = "nenhuma" /\ levantou = "nenhum" /\ mainRet = "em_curso"
    /\ RelInativo
    /\ CorrInativo
    /\ NulInativo

Next ==
    \/ MainInicio
    \/ Converter
    \/ LerArquivoCsv
    \/ RenomearColunas
    \/ InfoDf
    \/ EstatisticasDescritivas
    \/ VerificarNulos
    \/ GerarHistogramas
    \/ GerarMatrizCorrelacao
    \/ ScatterplotsAquecimento
    \/ ScatterplotsResfriamento
    \/ EstagioExtrair
    \/ CalcularVif
    \/ GerarRelatorio
    \/ Concluir
    \/ MainExcept

Spec == Init /\ [][Next]_vars

\* ---- gerar_relatorio_pdf on any inputs ----
InitRelatorio ==
    /\ PipeInativo
    /\ CorrInativo
    /\ NulInativo
    /\ pcRel = "capa"
    /\ c = CanvasNovo
    /\ salvo = FALSE
    /\ dir \in Diretorios
    /\ \E longa \in SecoesTexto, q \in 0..MaxQuebras, delta \in (-Janela)..Janela,
          curto \in 0..MaxCurto :
          linhas = [s \in SecoesTexto |->
                      Max(MinLinhas(s),
                          IF s = longa THEN LinhasAte(PassoDe(s), q) + delta
                          ELSE curto)]

NextRelatorio ==
    \/ RelCapa
    \/ RelInfo
    \/ RelSumario
    \/ RelDescribe
    \/ RelNulos
    \/ RelCorrelacoes
    \/ RelHeatmap
    \/ RelHistogramas
    \/ RelBoxplots
    \/ RelScatterAq
    \/ RelScatterRes
    \/ RelVif
    \/ RelSalvar

SpecRelatorio == InitRelatorio /\ [][NextRelatorio]_vars

\* ---- extrair_maiores_correlacoes on any matrix and limit ----
InitCorr ==
    /\ PipeInativo
    /\ RelInativo
    /\ NulInativo
    /\ pcCorr = "chamar"
    /\ \E n \in 0..MaxN :
          \E tri \in [ParesIndices(n) -> (-MaxV)..MaxV] :
             correlacao = Matriz(n, tri)
    /\ limite \in 0..MaxK
    /\ resultado = <<>>

NextCorr == Extrair

SpecCorr == InitCorr /\ [][NextCorr]_vars

\* ---- verificar_nulos on any table, with injections between calls ----
InitNulos ==
    /\ PipeInativo
    /\ RelInativo
    /\ CorrInativo
    /\ pcNul = "chamar"
    /\ \E n \in 0..MaxLinhasNul :
          \E cels \in [DOMAIN ColunasNul -> [1..n -> Celulas]] :
             tabNul = TabelaNul(cels)
    /\ nulos = <<>>
    /\ nulosAntes = <<>>
    /\ injecao = SemInjecao

NextNulos ==
    \/ ChamarVerificarNulos
    \/ Injetar

SpecNulos == InitNulos /\ [][NextNulos]_vars

---------------------------------------------------------------------------
(* Claims about one run of main(), checked under Spec *)

\* the stages C1 lists
EstagiosComTry ==
    {"converter_excel_para_csv", "ler_arquivo_csv", "estatisticas_descritivas",
     "info", "verificar_nulos", "gerar_histogramas", "gerar_matriz_correlacao",
     "scatterplots_aqueciemneto", "scatterplots_refriamento",
     "extrair_maiores_correlacoes", "calcular_vif"}

\* stage s called logging.error
LogouErro(s) ==
    \E i \in DOMAIN log : log[i].nivel = "ERROR" /\ log[i].origem = s

\* C1: every failure inside one of the listed stages is logged as an error by
\* that stage and leaves the stage as an exception: the stage does not return
\* normally after an internal failure.
C1_FalhaLogadaERelancada ==
    \A s \in EstagiosComTry :
        s \in falhas => /\ LogouErro(s)
                        /\ levantou = s
                        /\ s \notin retornos

SemRepeticao(seq) == \A i, j \in DOMAIN seq : seq[i] = seq[j] => i = j

\* C2: main never lets an exception of the conversion or of a stage escape:
\* once a stage has raised, main ends having logged the critical-error
\* message as its last record and returned normally, and no stage was run a
\* second time.
C2_MainCapturaERetorna ==
    /\ mainRet # "propagou"
    /\ SemRepeticao(executadas)
    /\ (pc = "fim" /\ levantou # "nenhum") =>
          /\ mainRet = "normal"
          /\ excecao = "nenhuma"
          /\ log[Len(log)] = Erro("main", "ERRO CRITICO DURANTE A EXECUCAO")
          /\ executadas[Len(executadas)] = levantou

\* C2 witness: the run ended after calcular_vif raised
C2_Witness ==
    /\ pc = "fim"
    /\ levantou = "calcular_vif"
    /\ mainRet = "normal"

\* the stages are entered in program order; after a raise the document was
\* not saved; the document is saved at most once, after every stage returned
C3_Estado ==
    /\ Len(executadas) <= Len(Estagios)
    /\ \A i \in DOMAIN executadas : executadas[i] = Estagios[i]
    /\ levantou # "nenhum" =>
          /\ executadas[Len(executadas)] = levantou
          /\ pdf = 0
    /\ pdf <= 1
    /\ pdf = 1 => Range(Estagios) \subseteq retornos

\* no file of the images directory is ever removed, and once a stage has
\* raised no stage is entered and nothing is saved
C3_Passo ==
    /\ figs \subseteq figs'
    /\ pdf <= pdf'
    /\ levantou # "nenhum" =>
          /\ executadas' = executadas
          /\ figs' = figs
          /\ pdf' = pdf

\* C3: the stages run strictly in the program's sequence; when a stage raises
\* no later stage is executed and the final document is not saved in that
\* run, while every file already written stays on disk.
C3_SequenciaSemRollback == [](C3_Estado) /\ [][C3_Passo]_vars

\* C3 witness: calcular_vif raised after the chart stages had written their
\* files, which are still there at the end, and no document was saved
C3_Witness ==
    /\ pc = "fim"
    /\ levantou = "calcular_vif"
    /\ ArqHeatmap \in figs
    /\ ArqHist("Carga_Aquecimento") \in figs
    /\ pdf = 0

\* the images a complete run is to leave for table t
ImagensEsperadas(t) ==
    {ArqHeatmap}
    \cup {ArqHist(col) : col \in Range(ColunasNumericas(t))}
    \cup {ArqBox(col) : col \in Range(ColunasNumericas(t))}
    \cup {ArqScatter(alvo, p) : alvo \in Alvos, p \in Range(Preditoras(t))}

\* C8: after a complete run that started with an empty images directory, the
\* images of the directory are exactly the heatmap, one histogram and one
\* boxplot per numeric column and one scatterplot per target and numeric
\* predictor, and one final document was written.
C8_ArtefatosDaExecucaoCompleta ==
    (pc = "fim" /\ levantou = "nenhum") =>
        /\ pdf = 1
        /\ figs \ {ArqVif} = ImagensEsperadas(df)

\* the table as renomear_colunas_pt_br is to return it for the table loaded
Renomeada(i) ==
    [nome     |-> IF i <= Len(NomesPtBr) THEN NomesPtBr[i] ELSE entrada[i].nome,
     numerica |-> entrada[i].numerica,
     celulas  |-> entrada[i].celulas]

\* the file is read at most once; from the load to the renaming the table is
\* the one loaded, and from the renaming on it is the one loaded with the
\* first ten names replaced by position
C13_Estado ==
    /\ Cardinality({i \in DOMAIN executadas : executadas[i] = "ler_arquivo_csv"}) <= 1
    /\ ("ler_arquivo_csv" \in retornos /\ "renomear_colunas_pt_br" \notin retornos)
          => df = entrada
    /\ "renomear_colunas_pt_br" \in retornos =>
          /\ Len(df) = Len(entrada)
          /\ \A i \in DOMAIN df : df[i] = Renomeada(i)

\* only the load and the renaming give the run a new table
C13_Passo ==
    /\ df' # df => pc \in {"ler_arquivo_csv", "renomear_colunas_pt_br"}
    /\ "renomear_colunas_pt_br" \in retornos => df' = df

\* C13: the table is loaded once; renomear_colunas_pt_br returns the table
\* it was given with the same cells in the same column order, only the names
\* of the first ten columns replaced by position with the fixed names; and
\* no later stage changes the table.
C13_TabelaImutavel == [](C13_Estado) /\ [][C13_Passo]_vars

\* C13 witness: a complete run on an input of more than ten columns: the
\* eleventh column kept its name and its cells
C13_Witness ==
    /\ pc = "fim"
    /\ levantou = "nenhum"
    /\ pdf = 1
    /\ Len(df) > Len(NomesPtBr)
    /\ df[1].nome = "Compacidade_Relativa"
    /\ df[Len(df)].nome = entrada[Len(df)].nome
    /\ df[Len(df)].celulas = entrada[Len(df)].celulas

\* the positions of the numeric columns of the table that are no target,
\* and the k-th of them in table order
PosicoesPreditoras == {i \in DOMAIN df : df[i].numerica /\ df[i].nome \notin Alvos}
KesimaPreditora(k) ==
    CHOOSE i \in PosicoesPreditoras :
        Cardinality({j \in PosicoesPreditoras : j <= i}) = k

\* C12: when calcular_vif returns, its table has exactly one row per numeric
\* column that is no target, in table column order, none of them a target,
\* and the file was written; when the table has no such column the stage
\* logs an error, raises, returns no table and writes no file.
C12_UmaLinhaPorPreditora ==
    /\ "calcular_vif" \in retornos =>
          /\ Len(vif) = Cardinality(PosicoesPreditoras)
          /\ \A k \in DOMAIN vif :
                /\ vif[k] = df[KesimaPreditora(k)].nome
                /\ vif[k] \notin Alvos
          /\ ArqVif \in figs
    /\ ("calcular_vif" \in Range(executadas) /\ PosicoesPreditoras = {}) =>
          /\ levantou = "calcular_vif"
          /\ excecao \in {"ValueError", "nenhuma"}
          /\ "calcular_vif" \notin retornos
          /\ LogouErro("calcular_vif")
          /\ vif = <<>>
          /\ ArqVif \notin figs

\* C12 witness: the stage returned for a table in which a predictor column
\* is text, so that the rows are fewer than the non-target columns
C12_Witness ==
    /\ "calcular_vif" \in retornos
    /\ Len(vif) >= 7
    /\ \E i \in DOMAIN df : ~df[i].numerica /\ df[i].nome \notin Alvos
    /\ \E i, j \in DOMAIN df : df[i].nome \in Alvos /\ df[i].numerica
                                 /\ j > i /\ df[j].numerica /\ df[j].nome \notin Alvos

\* C12 witness of the failure: the run ended after calcular_vif found no
\* predictor and raised
C12_WitnessSemPreditoras ==
    /\ pc = "fim"
    /\ PosicoesPreditoras = {}
    /\ levantou = "calcular_vif"

---------------------------------------------------------------------------
(* Claims about extrair_maiores_correlacoes, checked under SpecCorr *)

\* the position of a column name in the matrix
Indice(nome) == CHOOSE i \in DOMAIN NomesPtBr : NomesPtBr[i] = nome

\* the magnitude the matrix holds for a pair of column names
AbsDe(par) == Abs(correlacao.val[Indice(par[1])][Indice(par[2])])

\* the unordered pairs of distinct columns of the matrix, those returned and
\* those left out
ParesDaMatriz == ParesIndices(correlacao.ncols)
NomesDe(p)    == {NomesPtBr[p[1]], NomesPtBr[p[2]]}
Devolvidos    == {{resultado[i].par[1], resultado[i].par[2]} : i \in DOMAIN resultado}
Excluidos     == {p \in ParesDaMatriz : NomesDe(p) \notin Devolvidos}

\* (i, j) is scanned before (k, l) by the two nested loops
AntesNaVarredura(p, q) == p[1] < q[1] \/ (p[1] = q[1] /\ p[2] < q[2])
IndicesDe(par) == <<Indice(par[1]), Indice(par[2])>>

---------------------------------------------------------------------------
(* Claims about gerar_relatorio_pdf, checked under SpecRelatorio *)

\* the pages emitted so far, the open one last
Paginas == c.paginas \o (IF c.atual = <<>> THEN <<>> ELSE <<c.atual>>)

\* the section a page belongs to: that of the first thing drawn on it
SecaoDaPagina(pg) == pg[1].sec

SecoesEmitidas == {SecaoDaPagina(Paginas[i]) : i \in DOMAIN Paginas}

\* the sections the document is to hold for directory d
SecoesEsperadas(d) ==
    {"capa", "info", "sumario", "describe", "nulos", "correlacoes"}
    \cup (IF ArqHeatmap \in d THEN {"heatmap"} ELSE {})
    \cup (IF Listagem(d, PrefixoHist) # {} THEN {"hist"} ELSE {})
    \cup (IF Listagem(d, PrefixoBox) # {} THEN {"box"} ELSE {})
    \cup (IF Listagem(d, PrefixoScatterAq) # {} THEN {"scatter_aq"} ELSE {})
    \cup (IF Listagem(d, PrefixoScatterRes) # {} THEN {"scatter_res"} ELSE {})
    \cup (IF ArqVif \in d THEN {"vif"} ELSE {})

\* C4: at every point of the assembly no page holds drawings of two sections
\* (each section starts on a new page) and the pages follow the fixed order
\* of the sections; the finished document holds exactly the cover, the five
\* always-present text sections and the sections whose files are present.
C4_SecoesEmOrdemFixa ==
    /\ \A i \in DOMAIN Paginas : \A k \in DOMAIN Paginas[i] :
          Paginas[i][k].sec = SecaoDaPagina(Paginas[i])
    /\ \A i, j \in DOMAIN Paginas :
          i < j => Ordem(SecaoDaPagina(Paginas[i])) <= Ordem(SecaoDaPagina(Paginas[j]))
    /\ pcRel = "fim" => SecoesEmitidas = SecoesEsperadas(dir)

\* C4 witness: a finished document with all twelve sections, one of them
\* spread over several pages
C4_Witness ==
    /\ pcRel = "fim"
    /\ SecoesEmitidas = Range(Secoes)
    /\ \E i \in 1..(Len(Paginas) - 1) :
          /\ SecaoDaPagina(Paginas[i]) = "nulos"
          /\ SecaoDaPagina(Paginas[i + 1]) = "nulos"

\* the text lines of a page extend below the margin after position k
UltimaLinhaDaPagina(pg, k) ==
    \A m \in DOMAIN pg : m > k => pg[m].tipo # "linha"

\* the text lines of a page, in the order they were drawn
EhLinha(op) == op.tipo = "linha"
LinhasDaPagina(pg) == SelectSeq(pg, EhLinha)

\* C9: in the text sections no heading or line is drawn below the bottom
\* margin, the lines of a page are drawn at strictly decreasing heights, a
\* line after which the cursor is below the margin is the last one of its
\* page (the page is closed at once), and a section goes on to a further
\* page only after such a line.
C9_PaginacaoNaMargem ==
    \A i \in DOMAIN Paginas :
        LET pg == Paginas[i] IN
        SecaoDaPagina(pg) \in SecoesTexto =>
            /\ \A k \in DOMAIN pg :
                  pg[k].tipo \in {"linha", "titulo"} => pg[k].y >= MargemInferior
            /\ LET ls == LinhasDaPagina(pg)
               IN  \A k \in 1..(Len(ls) - 1) : ls[k].y > ls[k + 1].y
            /\ \A k \in DOMAIN pg :
                  (pg[k].tipo = "linha"
                   /\ pg[k].y - PassoDe(pg[k].sec) < MargemInferior)
                      => /\ UltimaLinhaDaPagina(pg, k)
                         /\ i <= Len(c.paginas)
            /\ (i < Len(Paginas)
                /\ SecaoDaPagina(Paginas[i + 1]) = SecaoDaPagina(pg)) =>
                  \E k \in DOMAIN pg :
                      /\ pg[k].tipo = "linha"
                      /\ pg[k].y - PassoDe(pg[k].sec) < MargemInferior

\* C9 witness: the lines of the info section go on to a second page
C9_Witness ==
    \E i \in 1..(Len(Paginas) - 1) :
        /\ SecaoDaPagina(Paginas[i]) = "info"
        /\ SecaoDaPagina(Paginas[i + 1]) = "info"
        /\ \E k \in DOMAIN Paginas[i + 1] : Paginas[i + 1][k].tipo = "linha"

\* the pages of a document that are not those of file f
PaginaDe(f, pg) ==
    IF f = ArqVif THEN SecaoDaPagina(pg) = "vif"
    ELSE \E k \in DOMAIN pg : pg[k].tipo = "imagem" /\ pg[k].arq = f
SemPaginasDe(f, pags) == SelectSeq(pags, LAMBDA pg : ~PaginaDe(f, pg))

\* the documents the assembler can produce for directory d
Documentos(d) ==
    {Relatorio(d, linhas,
               [hist |-> oh, box |-> ob, scatter_aq |-> oa, scatter_res |-> or]).paginas :
        oh \in Ordenacoes(Listagem(d, PrefixoHist)),
        ob \in Ordenacoes(Listagem(d, PrefixoBox)),
        oa \in Ordenacoes(Listagem(d, PrefixoScatterAq)),
        or \in Ordenacoes(Listagem(d, PrefixoScatterRes))}

\* C10: whatever optional file (heatmap, VIF table, histogram, boxplot,
\* scatterplot) is absent from the directory, the assembler raises nothing
\* and saves the document, the document has no page for the absent file, and
\* it is a document the assembler produces with that file present, less the
\* pages of that file.
C10_AusentesIgnorados ==
    pcRel = "fim" =>
        /\ ~c.erro
        /\ salvo
        /\ c.atual = <<>>
        /\ \A f \in ArquivosRel \ dir :
              /\ \A i \in DOMAIN c.paginas : ~PaginaDe(f, c.paginas[i])
              /\ \E doc \in Documentos(dir \cup {f}) :
                    SemPaginasDe(f, doc) = c.paginas

\* C10 witness: the document was saved with the heatmap absent and the other
\* files present
C10_Witness ==
    /\ pcRel = "fim"
    /\ salvo
    /\ dir = ArquivosRel \ {ArqHeatmap}
---------------------------------------------------------------------------
(* Claims about verificar_nulos, checked under SpecNulos *)

\* the rows of column col that hold a missing value
LinhasAusentes(col) ==
    {r \in DOMAIN tabNul[col].celulas : tabNul[col].celulas[r] \in Ausentes}

\* C11: the Series returned has one entry per column, equal to the number of
\* missing cells of that column, hence 0 for a column with none; and after N
\* present cells of one column were replaced by missing values the next call
\* returns that column's earlier count plus N and every other column's
\* earlier count.
C11_ContagemDeNulos ==
    pcNul = "retornou" =>
        /\ DOMAIN nulos = DOMAIN tabNul
        /\ \A col \in DOMAIN tabNul :
              /\ nulos[col] = Cardinality(LinhasAusentes(col))
              /\ LinhasAusentes(col) = {} => nulos[col] = 0
        /\ injecao.feitas > 0 =>
              \A col \in DOMAIN tabNul :
                 nulos[col] = nulosAntes[col]
                              + (IF col = injecao.col THEN injecao.n ELSE 0)

\* C11 witness: a cell was replaced by None in a column that already had a
\* missing cell, the other column holds an empty string and no missing cell,
\* and the function returned
C11_Witness ==
    /\ pcNul = "retornou"
    /\ injecao.feitas > 0
    /\ nulosAntes[injecao.col] >= 1
    /\ \E r \in DOMAIN tabNul[injecao.col].celulas :
          tabNul[injecao.col].celulas[r] = "None"
    /\ \E col \in DOMAIN tabNul :
          /\ col # injecao.col
          /\ nulos[col] = 0
          /\ \E r \in DOMAIN tabNul[col].celulas : tabNul[col].celulas[r] = ""
---------------------------------------------------------------------------
(* Claims about the images of the report, checked under SpecRelatorio *)

\* the four filters of the assembler, each with the section it feeds
Filtros ==
    {[prefixo |-> PrefixoHist,       sec |-> "hist"],
     [prefixo |-> PrefixoBox,        sec |-> "box"],
     [prefixo |-> PrefixoScatterAq,  sec |-> "scatter_aq"],
     [prefixo |-> PrefixoScatterRes, sec |-> "scatter_res"]}

FiltrosDe(f) == {flt \in Filtros : StartsWith(f, flt.prefixo)}

ImagensDaPagina(pg) == {k \in DOMAIN pg : pg[k].tipo = "imagem"}

\* where the images are drawn: <<page, position in the page>>, and where
\* file f is
TodosDesenhos ==
    UNION {{<<i, k>> : k \in ImagensDaPagina(Paginas[i])} : i \in DOMAIN Paginas}
DesenhosEm(todos, f) == {pk \in todos : Paginas[pk[1]][pk[2]].arq = f}
Desenhos(f) == DesenhosEm(TodosDesenhos, f)

\* C14: no name is matched by two of the four filters, and none of them
\* matches the heatmap or the VIF table; no page holds two images and no
\* file is drawn twice; in the saved document every file of the directory
\* that a filter matches is drawn exactly once, on a page of that filter's
\* section, and a file no filter matches is not drawn, except the heatmap,
\* drawn once in the heatmap section.
C14_CadaImagemUmaVez ==
    LET todos == TodosDesenhos IN
    /\ \A f \in dir \cup {ArqHeatmap, ArqVif} : Cardinality(FiltrosDe(f)) <= 1
    /\ FiltrosDe(ArqHeatmap) = {} /\ FiltrosDe(ArqVif) = {}
    /\ \A i \in DOMAIN Paginas : Cardinality(ImagensDaPagina(Paginas[i])) <= 1
    /\ \A f \in dir : Cardinality(DesenhosEm(todos, f)) <= 1
    /\ pcRel = "fim" =>
          /\ salvo
          /\ \A f \in dir :
                IF FiltrosDe(f) # {}
                THEN /\ Cardinality(DesenhosEm(todos, f)) = 1
                     /\ \A pk \in DesenhosEm(todos, f) : \A flt \in FiltrosDe(f) :
                           SecaoDaPagina(Paginas[pk[1]]) = flt.sec
                ELSE IF f = ArqHeatmap
                THEN /\ Cardinality(DesenhosEm(todos, f)) = 1
                     /\ \A pk \in DesenhosEm(todos, f) :
                           SecaoDaPagina(Paginas[pk[1]]) = "heatmap"
                ELSE DesenhosEm(todos, f) = {}

\* C14 witness: the document was saved for a directory that holds every
\* file the stages write and a histogram they did not write, which has its
\* page among the histograms
C14_Witness ==
    /\ pcRel = "fim"
    /\ salvo
    /\ dir = ArquivosRel \cup {ArqHist("Orientacao")}
    /\ Cardinality(Desenhos(ArqHist("Orientacao"))) = 1
    /\ Cardinality(Desenhos(ArqScatter("Carga_Resfriamento", ColunasRel[1]))) = 1
=============================================================================
